---- MODULE Spec2Model ----
(***************************************************************************)
(* Model of apps/electron/SKILLs/skill-creator/scripts/quick_validate.py:  *)
(* the path resolver, the skill validator and the command-line run.        *)
(*                                                                         *)
(* Text is a sequence of characters (one-character strings).  A skill      *)
(* reference and a file content are sequences of tokens: the separator     *)
(* characters ("/" for references; "-" and "\n" for contents) and chunks   *)
(* of other text that contain no separator.                                *)
(***************************************************************************)
EXTENDS Integers, Sequences, FiniteSets, TLC

VARIABLES argv, skillDir, fileExists, content, yaml, pc, resolved_path,
          outcome, stdout, stderr, exitStatus, fsLog

vars == <<argv, skillDir, fileExists, content, yaml, pc, resolved_path,
          outcome, stdout, stderr, exitStatus, fsLog>>

(***************************************************************************)
(* Bounds of the explored inputs.                                          *)
(***************************************************************************)
MaxRefLen == 3
MaxContentLen == 10
MaxNameChars == 2
MaxDescChars == 2
MaxPad == 1
LenSlack == 1

(***************************************************************************)
(* Generic helpers on sequences.                                           *)
(***************************************************************************)
SeqsUpTo(S, n) == UNION {[1..k -> S] : k \in 0..n}

Rep(c, n) == [i \in 1..n |-> c]

Slice(s, a, b) == [i \in 1..(IF b >= a THEN b - a + 1 ELSE 0) |-> s[a + i - 1]]

\* s.startswith(p)
StartsWith(s, p) == Len(s) >= Len(p) /\ \A i \in 1..Len(p) : s[i] = p[i]

\* s.endswith(p)
EndsWith(s, p) ==
    Len(s) >= Len(p) /\ \A i \in 1..Len(p) : s[Len(s) - Len(p) + i] = p[i]

\* p occurs in s at (1-based) position i
OccursAt(s, p, i) ==
    i >= 1 /\ i + Len(p) - 1 <= Len(s) /\ \A k \in 1..Len(p) : s[i + k - 1] = p[k]

\* p in s
Contains(s, p) == \E i \in 1..Len(s) : OccursAt(s, p, i)

(***************************************************************************)
(* Characters.                                                             *)
(***************************************************************************)
\* Code point order of the characters that occur in keys and names.
CharOrder ==
    <<"\t", "\n", "\r", " ", "-", "0", "1", "2", "3", "4", "5", "6", "7", "8",
      "9", "<", ">", "A", "B", "M", "S", "Z", "_", "a", "b", "c", "d", "e",
      "f", "g", "h", "i", "j", "k", "l", "m", "n", "o", "p", "q", "r", "s",
      "t", "u", "v", "w", "x", "y", "z">>

Ord(c) == CHOOSE i \in 1..Len(CharOrder) : CharOrder[i] = c

\* the characters str.strip() removes
Whitespace == {" ", "\t", "\n", "\r"}

\* the character class [a-z0-9-]
HyphenCaseChars ==
    {"a", "b", "c", "d", "e", "f", "g", "h", "i", "j", "k", "l", "m", "n", "o",
     "p", "q", "r", "s", "t", "u", "v", "w", "x", "y", "z", "0", "1", "2", "3",
     "4", "5", "6", "7", "8", "9", "-"}

\* str.strip()
strip(s) ==
    LET keep == {i \in 1..Len(s) : s[i] \notin Whitespace}
    IN  IF keep = {} THEN <<>>
        ELSE LET lo == CHOOSE i \in keep : \A j \in 1..(i - 1) : s[j] \in Whitespace
                 hi == CHOOSE i \in keep : \A j \in (i + 1)..Len(s) : s[j] \in Whitespace
             IN  Slice(s, lo, hi)

\* Python's < on str: lexicographic by code point
StrLess(s, t) ==
    \/ Len(s) < Len(t) /\ \A i \in 1..Len(s) : s[i] = t[i]
    \/ \E i \in 1..Len(s) :
          /\ i <= Len(t)
          /\ \A j \in 1..(i - 1) : s[j] = t[j]
          /\ Ord(s[i]) < Ord(t[i])

\* sorted(S) for a set of str
RECURSIVE sorted(_)
sorted(S) ==
    IF S = {} THEN <<>>
    ELSE LET m == CHOOSE x \in S : \A y \in S \ {x} : StrLess(x, y)
         IN  <<m>> \o sorted(S \ {m})

\* ', '.join(seq)
RECURSIVE join(_)
join(seq) ==
    IF Len(seq) = 0 THEN <<>>
    ELSE IF Len(seq) = 1 THEN seq[1]
    ELSE seq[1] \o <<",", " ">> \o join(Tail(seq))

(***************************************************************************)
(* Paths (pathlib.Path on POSIX): a root and the list of segments.         *)
(***************************************************************************)
\* the segments of a reference: split on "/", empty and "." segments dropped
RECURSIVE SplitSegs(_, _)
SplitSegs(s, cur) ==
    LET flush == IF cur = <<>> \/ cur = <<".">> THEN <<>> ELSE <<cur>>
    IN  IF s = <<>> THEN flush
        ELSE IF Head(s) = "/" THEN flush \o SplitSegs(Tail(s), <<>>)
        ELSE SplitSegs(Tail(s), Append(cur, Head(s)))

\* exactly two leading slashes are kept as the root "//"
RootOf(s) ==
    IF ~StartsWith(s, <<"/">>) THEN ""
    ELSE IF StartsWith(s, <<"/", "/">>) /\ ~StartsWith(s, <<"/", "/", "/">>)
         THEN "//"
         ELSE "/"

\* Path(s)
Path(s) == [root |-> RootOf(s), parts |-> SplitSegs(s, <<>>)]

\* path.is_absolute()
is_absolute(p) == p.root # ""

\* p / s
PathJoin(p, s) ==
    IF is_absolute(Path(s)) THEN Path(s)
    ELSE [root |-> p.root, parts |-> p.parts \o Path(s).parts]

SKILLS_BASE_PATH == [root |-> "/", parts |-> << <<"home">>, <<"ubuntu">>, <<"skills">> >>]

\* a name is not looked up under the base directory
resolve_skill_path_mutant(skill_path_or_name) == Path(skill_path_or_name)

resolve_skill_path(skill_path_or_name) ==
    LET path == Path(skill_path_or_name)
    IN  IF is_absolute(path) THEN path
        ELSE PathJoin(SKILLS_BASE_PATH, skill_path_or_name)

(***************************************************************************)
(* Python values as yaml.safe_load builds them: the type name and the text *)
(* of the value.  A mapping is the set of its entries; keys are unique.    *)
(***************************************************************************)
Str(s) == [t |-> "str", v |-> s]

Entry(k, val) == [key |-> k, value |-> val]

\* frontmatter.keys()
keys(frontmatter) == {e.key : e \in frontmatter}

\* 'k' in frontmatter
HasKey(frontmatter, k) == \E e \in frontmatter : e.key = Str(k)

\* frontmatter.get(k, '')
get(frontmatter, k) ==
    IF HasKey(frontmatter, k)
    THEN (CHOOSE e \in frontmatter : e.key = Str(k)).value
    ELSE Str(<<>>)

kName == <<"n", "a", "m", "e">>
kDescription == <<"d", "e", "s", "c", "r", "i", "p", "t", "i", "o", "n">>
kLicense == <<"l", "i", "c", "e", "n", "s", "e">>
kAllowedTools == <<"a", "l", "l", "o", "w", "e", "d", "-", "t", "o", "o", "l", "s">>
kMetadata == <<"m", "e", "t", "a", "d", "a", "t", "a">>

\* license is missing from the allowed set
AllowedWithoutLicense ==
    {Str(kName), Str(kDescription), Str(kAllowedTools), Str(kMetadata)}

ALLOWED_PROPERTIES ==
    {Str(kName), Str(kDescription), Str(kLicense), Str(kAllowedTools), Str(kMetadata)}

MaxNameLen == 64
MaxDescriptionLen == 1024

(***************************************************************************)
(* Results.  A message is the identity of its fixed text, the strings      *)
(* formatted into it and the number formatted into it (0 if none).         *)
(***************************************************************************)
Msg(id, strs, num) == [id |-> id, strs |-> strs, num |-> num]

NoMsg == Msg("", <<>>, 0)

NoPath == [root |-> "", parts |-> <<>>]

\* return valid, message
Return(valid, message, checks) ==
    [kind |-> "return", valid |-> valid, message |-> message, checks |-> checks]

\* an exception leaves the function
Raise(exc, checks) ==
    [kind |-> exc, valid |-> FALSE, message |-> NoMsg, checks |-> checks]

\* re.match(r'^[a-z0-9-]+$', name)
MatchesHyphenCase(name) ==
    Len(name) >= 1 /\ \A i \in 1..Len(name) : name[i] \in HyphenCaseChars

\* the check for consecutive hyphens is left out
BadHyphensMutant(name) == StartsWith(name, <<"-">>) \/ EndsWith(name, <<"-">>)

\* name.startswith('-') or name.endswith('-') or '--' in name
BadHyphens(name) ==
    \/ StartsWith(name, <<"-">>)
    \/ EndsWith(name, <<"-">>)
    \/ Contains(name, <<"-", "-">>)

\* '<' in description or '>' in description
HasAngleBrackets(description) ==
    Contains(description, <<"<">>) \/ Contains(description, <<">">>)

\* the comparison is off by one
NameTooLongMutant(name) == Len(name) >= 64

\* len(name) > 64
NameTooLong(name) == Len(name) > MaxNameLen

\* len(description) > 1024
DescriptionTooLong(description) == Len(description) > MaxDescriptionLen

\* lines 102-115: the description checks and the final success
check_description(frontmatter, done) ==
    LET raw == get(frontmatter, kDescription)
        c1 == Append(done, "description_type")
        description == strip(raw.v)
        c2 == Append(c1, "description_brackets")
        c3 == Append(c2, "description_length")
    IN  IF raw.t # "str"
        THEN Return(FALSE, Msg("Description must be a string, got", <<<<raw.t>>>>, 0), c1)
        ELSE IF description = <<>>
        THEN Return(TRUE, Msg("Skill is valid!", <<>>, 0), c1)
        ELSE IF HasAngleBrackets(description)
        THEN Return(FALSE, Msg("Description cannot contain angle brackets", <<>>, 0), c2)
        ELSE IF DescriptionTooLong(description)
        THEN Return(FALSE, Msg("Description is too long", <<>>, Len(description)), c3)
        ELSE Return(TRUE, Msg("Skill is valid!", <<>>, 0), c3)

\* lines 87-100: the name checks
check_name(frontmatter, done) ==
    LET raw == get(frontmatter, kName)
        c1 == Append(done, "name_type")
        name == strip(raw.v)
        c2 == Append(c1, "name_chars")
        c3 == Append(c2, "name_hyphens")
        c4 == Append(c3, "name_length")
    IN  IF raw.t # "str"
        THEN Return(FALSE, Msg("Name must be a string, got", <<<<raw.t>>>>, 0), c1)
        ELSE IF name = <<>>
        THEN check_description(frontmatter, c1)
        ELSE IF ~MatchesHyphenCase(name)
        THEN Return(FALSE, Msg("Name should be hyphen-case", <<name>>, 0), c2)
        ELSE IF BadHyphens(name)
        THEN Return(FALSE, Msg("Name cannot start/end with hyphen or contain consecutive hyphens",
                               <<name>>, 0), c3)
        ELSE IF NameTooLong(name)
        THEN Return(FALSE, Msg("Name is too long", <<>>, Len(name)), c4)
        ELSE check_description(frontmatter, c4)

\* lines 70-85: the closed key set and the required keys.  sorted() raises
\* TypeError on keys of mixed types and ', '.join() raises TypeError on a
\* key that is not a str, so any unexpected key that is not a str raises.
check_keys(frontmatter, done) ==
    LET unexpected_keys == keys(frontmatter) \ ALLOWED_PROPERTIES
        c1 == Append(done, "unknown_keys")
        c2 == Append(c1, "name_present")
        c3 == Append(c2, "description_present")
    IN  IF unexpected_keys # {}
        THEN IF \E k \in unexpected_keys : k.t # "str"
             THEN Raise("TypeError", c1)
             ELSE Return(FALSE,
                         Msg("Unexpected key(s) in SKILL.md frontmatter",
                             <<join(sorted({k.v : k \in unexpected_keys})),
                               join(sorted({k.v : k \in ALLOWED_PROPERTIES}))>>, 0),
                         c1)
        ELSE IF ~HasKey(frontmatter, kName)
        THEN Return(FALSE, Msg("Missing 'name' in frontmatter", <<>>, 0), c2)
        ELSE IF ~HasKey(frontmatter, kDescription)
        THEN Return(FALSE, Msg("Missing 'description' in frontmatter", <<>>, 0), c3)
        ELSE check_name(frontmatter, c3)

(***************************************************************************)
(* Front-matter extraction and the file.                                   *)
(***************************************************************************)
Marker == <<"-", "-", "-">>

\* the lengths n of group 1 for which r'^---\n(.*?)\n---' matches text
MatchLengths(text) ==
    IF ~StartsWith(text, Marker \o <<"\n">>) THEN {}
    ELSE {n \in 0..Len(text) : OccursAt(text, <<"\n">> \o Marker, 5 + n)}

\* re.match(r'^---\n(.*?)\n---', text, re.DOTALL): the non-greedy group
\* takes the shortest length that lets the rest of the pattern match
frontmatter_match(text) ==
    LET ns == MatchLengths(text)
    IN  IF ns = {} THEN [matched |-> FALSE, group |-> <<>>]
        ELSE LET n == CHOOSE m \in ns : \A k \in ns : m <= k
             IN  [matched |-> TRUE, group |-> Slice(text, 5, 4 + n)]

\* skill_md.exists(): the only SKILL.md of the file system is in skillDir
exists(skill_md) ==
    fileExists /\ skill_md = PathJoin(skillDir, <<"SKILL.md">>)

\* yaml.safe_load(text): the library's answer for the extracted block
safe_load(text) == yaml

validate_skill(skill_path_or_name) ==
    LET skill_path == resolve_skill_path(skill_path_or_name)
        skill_md == PathJoin(skill_path, <<"SKILL.md">>)
        probe == <<[op |-> "exists", path |-> skill_md]>>
        read == Append(probe, [op |-> "read_text", path |-> skill_md])
        match == frontmatter_match(content)
        frontmatter == safe_load(match.group)
        c1 == <<"exists">>
        c2 == Append(c1, "marker")
        c3 == Append(c2, "closing_marker")
        c4 == Append(c3, "yaml_mapping")
        With(r, fsops, parsed) ==
            [kind |-> r.kind, valid |-> r.valid, message |-> r.message,
             checks |-> r.checks, fsops |-> fsops, parsed |-> parsed]
    IN  IF ~exists(skill_md)
        THEN With(Return(FALSE, Msg("SKILL.md not found", <<>>, 0), c1), probe, <<>>)
        ELSE IF ~StartsWith(content, Marker)
        THEN With(Return(FALSE, Msg("No YAML frontmatter found", <<>>, 0), c2), read, <<>>)
        ELSE IF ~match.matched
        THEN With(Return(FALSE, Msg("Invalid frontmatter format", <<>>, 0), c3), read, <<>>)
        ELSE IF frontmatter.kind = "YAMLError"
        THEN With(Return(FALSE, Msg("Invalid YAML in frontmatter", <<frontmatter.text>>, 0), c4),
                  read, <<match.group>>)
        ELSE IF frontmatter.kind # "dict"
        THEN With(Return(FALSE, Msg("Frontmatter must be a YAML dictionary", <<>>, 0), c4),
                  read, <<match.group>>)
        ELSE With(check_keys(frontmatter.map, c4), read, <<match.group>>)

NoOutcome ==
    [kind |-> "none", valid |-> FALSE, message |-> NoMsg, checks |-> <<>>,
     fsops |-> <<>>, parsed |-> <<>>]

(***************************************************************************)
(* The command-line run (lines 117-134), one action per statement group.   *)
(* argv holds the arguments after the program name.                        *)
(***************************************************************************)
Line(kind, path, message) == [kind |-> kind, path |-> path, message |-> message]

UsageText ==
    <<Line("usage_name", NoPath, NoMsg),
      Line("usage_path", NoPath, NoMsg),
      Line("examples", NoPath, NoMsg),
      Line("example_name", NoPath, NoMsg),
      Line("example_path", NoPath, NoMsg),
      Line("expected_at", SKILLS_BASE_PATH, NoMsg)>>

\* the exit status does not depend on the result
ExitCodeMutant(valid) == 0

\* sys.exit(0 if valid else 1)
ExitCode(valid) == IF valid THEN 0 ELSE 1

\* lines 118-125
Usage ==
    /\ pc = "start"
    /\ Len(argv) # 1
    /\ stdout' = stdout \o UsageText
    /\ exitStatus' = 1
    /\ pc' = "exited"
    /\ UNCHANGED <<argv, skillDir, fileExists, content, yaml, resolved_path,
                   outcome, stderr, fsLog>>

\* lines 127-130
Announce ==
    /\ pc = "start"
    /\ Len(argv) = 1
    /\ resolved_path' = resolve_skill_path(argv[1])
    /\ stdout' = Append(stdout, Line("validating", resolved_path', NoMsg))
    /\ pc' = "announced"
    /\ UNCHANGED <<argv, skillDir, fileExists, content, yaml, outcome, stderr,
                   exitStatus, fsLog>>

\* line 132
Validate ==
    /\ pc = "announced"
    /\ outcome' = validate_skill(argv[1])
    /\ fsLog' = fsLog \o outcome'.fsops
    /\ pc' = "validated"
    /\ UNCHANGED <<argv, skillDir, fileExists, content, yaml, resolved_path,
                   stdout, stderr, exitStatus>>

\* line 133
PrintMessage ==
    /\ pc = "validated"
    /\ outcome.kind = "return"
    /\ stdout' = Append(stdout, Line("message", NoPath, outcome.message))
    /\ pc' = "printed"
    /\ UNCHANGED <<argv, skillDir, fileExists, content, yaml, resolved_path,
                   outcome, stderr, exitStatus, fsLog>>

\* line 134
Exit ==
    /\ pc = "printed"
    /\ exitStatus' = ExitCode(outcome.valid)
    /\ pc' = "exited"
    /\ UNCHANGED <<argv, skillDir, fileExists, content, yaml, resolved_path,
                   outcome, stdout, stderr, fsLog>>

\* line 132 raised: the interpreter prints the traceback and exits with 1
Crash ==
    /\ pc = "validated"
    /\ outcome.kind \notin {"return", "none"}
    /\ stderr' = Append(stderr, outcome.kind)
    /\ exitStatus' = 1
    /\ pc' = "exited"
    /\ UNCHANGED <<argv, skillDir, fileExists, content, yaml, resolved_path,
                   outcome, stdout, fsLog>>

Next == Usage \/ Announce \/ Validate \/ PrintMessage \/ Exit \/ Crash

(***************************************************************************)
(* Inputs.                                                                 *)
(***************************************************************************)
RefTokens == {"/", ".", "foo"}
ContentTokens == {"-", "\n", "y"}
NameChars == {"a", "-", "A", " "}
DescChars == {"d", "<", " "}

Foo == <<"f", "o", "o">>
Bar == <<"b", "a", "r">>
MySkill == <<"m", "y", "-", "s", "k", "i", "l", "l">>
DoesAThing == <<"d", "o", "e", "s", " ", "a", " ", "t", "h", "i", "n", "g">>

IntVal == [t |-> "int", v |-> <<"4", "2">>]
NoneVal == [t |-> "NoneType", v |-> <<>>]
DictVal == [t |-> "dict", v |-> <<"{", "a", ":", "{", "b", ":", "1", "}", "}">>]
ListVal == [t |-> "list", v |-> <<"[", "x", "]">>]

\* name entries of a mapping: absent, a str, or a value of another type
NameParts(strings) ==
    {{}} \cup {{Entry(Str(kName), Str(s))} : s \in strings}
         \cup {{Entry(Str(kName), x)} : x \in {IntVal, NoneVal}}

DescriptionParts(strings) ==
    {{}} \cup {{Entry(Str(kDescription), Str(s))} : s \in strings}
         \cup {{Entry(Str(kDescription), x)} : x \in {IntVal, ListVal}}

OptionalValues == {Str(<<"M", "I", "T">>), IntVal, DictVal}

OptionalKeys == {Str(kLicense), Str(kAllowedTools), Str(kMetadata)}

\* every choice of optional entries
OptionalParts ==
    UNION {{{Entry(k, f[k]) : k \in K} : f \in [K -> OptionalValues]} :
           K \in SUBSET OptionalKeys}

\* entries under keys outside the allowed set
ExtraParts ==
    {{},
     {Entry(Str(Foo), Str(Bar))},
     {Entry(Str(Foo), Str(Bar)), Entry(Str(Bar), IntVal)},
     {Entry([t |-> "int", v |-> <<"1">>], Str(Bar))},
     {Entry(Str(Foo), Str(Bar)), Entry([t |-> "int", v |-> <<"1">>], Str(Bar))},
     {Entry([t |-> "NoneType", v |-> <<>>], Str(Bar))}}

Dict(m) == [kind |-> "dict", text |-> <<>>, map |-> m]
YamlError == [kind |-> "YAMLError", text |-> <<"mapping values are not allowed here">>, map |-> {}]
NotADict == [kind |-> "other", text |-> <<>>, map |-> {}]

Mappings(names, descs, opts, extras) ==
    {n \cup d \cup o \cup x :
        n \in NameParts(names), d \in DescriptionParts(descs),
        o \in opts, x \in extras}

ValidMap == {Entry(Str(kName), Str(MySkill)), Entry(Str(kDescription), Str(DoesAThing))}

FooRef == <<"foo">>
FooDir == resolve_skill_path(FooRef)
GoodContent == Marker \o <<"\n", "y", "\n">> \o Marker \o <<"\n">>

\* the block the validator would extract has some text besides "-" and "\n"
BlockHasText(c) ==
    LET m == frontmatter_match(c)
    IN  m.matched /\ \E i \in 1..Len(m.group) : m.group[i] \notin {"-", "\n"}

InitWith(Argvs, Dirs, Exist, Contents, Yamls) ==
    /\ argv \in Argvs
    /\ skillDir \in Dirs
    /\ fileExists \in Exist
    /\ content \in Contents
    /\ yaml \in Yamls
    \* a block of dashes and newlines only does not load as a mapping
    /\ yaml.kind = "dict" => BlockHasText(content)
    /\ pc = "start"
    /\ resolved_path = NoPath
    /\ outcome = NoOutcome
    /\ stdout = <<>>
    /\ stderr = <<>>
    /\ exitStatus = -1
    /\ fsLog = <<>>

\* a few runs of every kind: wrong argument counts, a valid skill, a raise
InitBase ==
    InitWith({<<>>, <<FooRef>>, <<FooRef, FooRef>>}, {FooDir}, {TRUE},
             {GoodContent},
             {Dict(ValidMap), Dict(ValidMap \cup {Entry([t |-> "int", v |-> <<"1">>], Str(Bar))})})

----
\* The command-line run over a mix of references, files and front matters.
MaxArgs == 2
MainRefs == {FooRef, <<"/", "tmp", "/", "foo">>}
MainContents ==
    {GoodContent, <<"y", "\n">> \o Marker, Marker \o <<"\n", "y", "\n">>,
     Marker \o <<"\n", "y", "\n">> \o Marker \o <<"y">>}
MainYamls ==
    {YamlError, NotADict} \cup
    {Dict(m) : m \in Mappings({MySkill, <<"A">>}, {DoesAThing, <<"<">>},
                              {{Entry(Str(kLicense), IntVal)}, {Entry(Str(kMetadata), DictVal)}},
                              {x \in ExtraParts : Cardinality(x) # 1})}

Init ==
    InitWith(SeqsUpTo(MainRefs, MaxArgs), {resolve_skill_path(r) : r \in MainRefs},
             BOOLEAN, MainContents, MainYamls)

Spec == Init /\ [][Next]_vars

----
\* The run over every short reference.
AllRefs == SeqsUpTo(RefTokens, MaxRefLen)

InitResolve ==
    \/ InitBase
    \/ InitWith({<<r>> : r \in AllRefs}, {FooDir, Path(<<"/", "foo">>)}, BOOLEAN,
                {GoodContent}, {Dict(ValidMap), NotADict})

SpecResolve == InitResolve /\ [][Next]_vars

----
\* The run over every short content that starts with the marker.
ExtractContents == {Marker \o t : t \in SeqsUpTo(ContentTokens, MaxContentLen - 3)}

InitExtract ==
    \/ InitBase
    \/ InitWith({<<FooRef>>}, {FooDir}, {TRUE},
                ExtractContents \cup {<<>>, <<"y", "\n">> \o Marker},
                {Dict(ValidMap), NotADict})

SpecExtract == InitExtract /\ [][Next]_vars

----
\* The run over front matters: short names and descriptions with every
\* combination of keys, and names and descriptions around the length limits.
ShortNames ==
    SeqsUpTo(NameChars, MaxNameChars)
        \cup {MySkill, <<"M", "y", "_", "S", "k", "i", "l", "l">>, <<"a", "-", "-", "b">>,
              <<" ">> \o MySkill \o <<"\n">>}

ShortDescriptions ==
    SeqsUpTo(DescChars, MaxDescChars)
        \cup {DoesAThing, <<"<", "s", "c", "r", "i", "p", "t", ">">>}

Padded(body) == {Rep(" ", l) \o body \o Rep(" ", r) : l \in 0..MaxPad, r \in 0..MaxPad}

LongNames ==
    UNION {Padded(Rep("a", n)) \cup Padded(Rep("a", n - 2) \o <<"-", "b">>)
               \cup Padded(Rep("a", n - 1) \o <<"-">>) :
           n \in (MaxNameLen - LenSlack)..(MaxNameLen + LenSlack)}

LongDescriptions ==
    UNION {Padded(Rep("d", n)) \cup Padded(Rep("d", n - 1) \o <<">">>) :
           n \in (MaxDescriptionLen - LenSlack)..(MaxDescriptionLen + LenSlack)}

InitFrontmatter ==
    \/ InitBase
    \/ InitWith({<<FooRef>>}, {FooDir}, {TRUE}, {GoodContent},
                {YamlError, NotADict} \cup
                {Dict(m) : m \in Mappings(ShortNames, ShortDescriptions,
                                          {{}, {Entry(Str(kLicense), Str(<<"M", "I", "T">>))},
                                           {Entry(Str(kMetadata), DictVal),
                                            Entry(Str(kAllowedTools), IntVal)}},
                                          ExtraParts)})
    \/ InitWith({<<FooRef>>}, {FooDir}, {TRUE}, {GoodContent},
                {Dict(m) : m \in Mappings(LongNames, {DoesAThing}, {{}}, {{}})
                                 \cup Mappings({MySkill, <<>>}, LongDescriptions, {{}}, {{}})})

SpecFrontmatter == InitFrontmatter /\ [][Next]_vars

(***************************************************************************)
(* Properties.                                                             *)
(***************************************************************************)
\* validate_skill has been called and has finished
Validated == outcome.kind # "none"

\* the call reached the checks of the parsed mapping (lines 70-115)
FrontmatterChecked == Validated /\ outcome.parsed # <<>> /\ yaml.kind = "dict"

Returned(valid, message) ==
    outcome.kind = "return" /\ outcome.valid = valid /\ outcome.message = message

SkillMd == PathJoin(resolve_skill_path(argv[1]), <<"SKILL.md">>)

\* hyphen-case: lowercase letters, digits and hyphens only, no leading,
\* trailing or doubled hyphen
IsHyphenCase(s) ==
    /\ \A i \in 1..Len(s) : s[i] \in HyphenCaseChars
    /\ Len(s) > 0 => s[1] # "-" /\ s[Len(s)] # "-"
    /\ \A i \in 1..(Len(s) - 1) : ~(s[i] = "-" /\ s[i + 1] = "-")

NoBrackets(s) == \A i \in 1..Len(s) : s[i] \notin {"<", ">"}

RawName == get(yaml.map, kName)
RawDescription == get(yaml.map, kDescription)

KeysWellFormed ==
    /\ keys(yaml.map) \subseteq ALLOWED_PROPERTIES
    /\ HasKey(yaml.map, kName) /\ HasKey(yaml.map, kDescription)
    /\ RawName.t = "str" /\ RawDescription.t = "str"

----
\* C1: validate_skill never ends by raising an exception; every call returns
\* a pair (boolean, message).
C1_NoCrashPath == Validated => outcome.kind = "return" /\ outcome.valid \in BOOLEAN

----
\* C2 (as claimed): whenever validate_skill returns success, the front matter
\* it read has only allowed keys, has name and description as strings, its
\* name is hyphen-case of at most 64 characters and its description has no
\* angle bracket and at most 1024 characters.
C2_SuccessImpliesFormat ==
    (outcome.kind = "return" /\ outcome.valid) =>
        /\ KeysWellFormed
        /\ IsHyphenCase(RawName.v) /\ Len(RawName.v) <= 64
        /\ NoBrackets(RawDescription.v) /\ Len(RawDescription.v) <= 1024

\* C2 (amended): whenever validate_skill returns success, the front matter has
\* only allowed keys, has name and description as strings, its name with the
\* surrounding whitespace trimmed is hyphen-case (possibly empty) of at most
\* 64 characters, and its description has no angle bracket and, with the
\* surrounding whitespace trimmed, at most 1024 characters.
C2_SuccessImpliesTrimmedFormat ==
    (outcome.kind = "return" /\ outcome.valid) =>
        /\ KeysWellFormed
        /\ IsHyphenCase(strip(RawName.v)) /\ Len(strip(RawName.v)) <= 64
        /\ NoBrackets(RawDescription.v) /\ Len(strip(RawDescription.v)) <= 1024

\* a skill is accepted whose name carries surrounding whitespace
C2_Witness ==
    /\ outcome.kind = "return" /\ outcome.valid
    /\ strip(RawName.v) # <<>> /\ strip(RawName.v) # RawName.v

----
\* C3: whenever the parsed mapping has a key outside the allowed set,
\* validate_skill returns failure with the message that lists the offending
\* keys in sorted order and then the allowed keys in sorted order.
C3_UnknownKeysReported ==
    (FrontmatterChecked /\ keys(yaml.map) \ ALLOWED_PROPERTIES # {}) =>
        /\ outcome.kind = "return" /\ ~outcome.valid
        /\ outcome.message.id = "Unexpected key(s) in SKILL.md frontmatter"
        /\ outcome.message.strs[2] =
              kAllowedTools \o <<",", " ">> \o kDescription \o <<",", " ">> \o kLicense
                  \o <<",", " ">> \o kMetadata \o <<",", " ">> \o kName
        /\ outcome.message.strs[1] =
              join(sorted({k.v : k \in keys(yaml.map) \ ALLOWED_PROPERTIES}))

----
\* C4: the run exits with status 0 exactly when it had one argument and
\* validate_skill returned valid for it, and with status 1 otherwise; with a
\* wrong argument count it prints the usage text and exits without resolving
\* a path or touching the file system.
C4_ExitStatus ==
    /\ pc # "exited" => exitStatus = -1
    /\ pc = "exited" =>
          /\ exitStatus \in {0, 1}
          /\ exitStatus = 0 <=>
                (Len(argv) = 1 /\ outcome.kind = "return" /\ outcome.valid)
          /\ Len(argv) # 1 =>
                /\ stdout = UsageText
                /\ resolved_path = NoPath /\ outcome = NoOutcome /\ fsLog = <<>>

\* a run with one argument and a valid skill has exited
C4_Witness ==
    pc = "exited" /\ Len(argv) = 1 /\ outcome.kind = "return" /\ outcome.valid

----
\* C5: a run with exactly one argument has, when it exits, printed exactly
\* the line announcing the resolved path and then the validation message;
\* the announced path is the directory whose SKILL.md was examined, and the
\* message is the success text exactly when the exit status is 0.
C5_OutputOrder ==
    /\ (Len(argv) = 1 /\ pc = "exited") =>
          /\ Len(stdout) = 2
          /\ stdout[1].kind = "validating" /\ stdout[2].kind = "message"
          /\ fsLog # <<>> /\ fsLog[1].path = PathJoin(stdout[1].path, <<"SKILL.md">>)
          /\ stdout[2].message.id = "Skill is valid!" <=> exitStatus = 0
    /\ (Len(argv) = 1 /\ pc # "exited") =>
          /\ Len(stdout) <= 2
          /\ \A i \in 1..Len(stdout) : stdout[i].kind = <<"validating", "message">>[i]

----
\* C6: the length checks use the trimmed value and are exact at the limit.
\* A name that passes the hyphen-case checks fails with the length message
\* citing its trimmed length when that length is 65 or more, and passes the
\* name checks when it is 64 or less; a description without angle brackets
\* fails with the length message citing its trimmed length when that is 1025
\* or more and is accepted when it is 1024 or less.
C6_LengthBoundaries ==
    (FrontmatterChecked /\ KeysWellFormed) =>
        LET n == strip(RawName.v)
            d == strip(RawDescription.v)
        IN  /\ (n # <<>> /\ IsHyphenCase(n) /\ Len(n) >= 65) =>
                  Returned(FALSE, Msg("Name is too long", <<>>, Len(n)))
            /\ (n # <<>> /\ IsHyphenCase(n) /\ Len(n) <= 64) =>
                  /\ outcome.kind = "return"
                  /\ outcome.message.id \in
                        {"Skill is valid!", "Description cannot contain angle brackets",
                         "Description is too long"}
            /\ (IsHyphenCase(n) /\ Len(n) <= 64 /\ d # <<>> /\ NoBrackets(d)) =>
                  /\ Len(d) >= 1025 =>
                        Returned(FALSE, Msg("Description is too long", <<>>, Len(d)))
                  /\ Len(d) <= 1024 => Returned(TRUE, Msg("Skill is valid!", <<>>, 0))

\* a padded name whose trimmed length is 65 was rejected citing 65
C6_Witness ==
    /\ FrontmatterChecked
    /\ Len(RawName.v) > 65
    /\ Returned(FALSE, Msg("Name is too long", <<>>, 65))

----
\* the path segments of a reference: its maximal runs without "/", in order,
\* without the "." segments
SegmentSpans(s) ==
    {ab \in (1..Len(s)) \X (1..Len(s)) :
        /\ ab[1] <= ab[2]
        /\ \A i \in ab[1]..ab[2] : s[i] # "/"
        /\ ab[1] = 1 \/ s[ab[1] - 1] = "/"
        /\ ab[2] = Len(s) \/ s[ab[2] + 1] = "/"
        /\ Slice(s, ab[1], ab[2]) # <<".">>}

IsSegmentsOf(parts, s) ==
    LET I == SegmentSpans(s)
    IN  /\ Len(parts) = Cardinality(I)
        /\ \A ab \in I :
              parts[1 + Cardinality({x \in I : x[1] < ab[1]})] = Slice(s, ab[1], ab[2])

BaseParts == << <<"home">>, <<"ubuntu">>, <<"skills">> >>

\* C7 (as claimed): resolve_skill_path returns an absolute input unchanged and
\* puts every other input as one segment directly under /home/ubuntu/skills;
\* it accesses no file.
C7_SingleSegment ==
    (Len(argv) = 1 /\ pc # "start") =>
        LET s == argv[1]
        IN  /\ StartsWith(s, <<"/">>) =>
                  /\ resolved_path.root \in {"/", "//"}
                  /\ IsSegmentsOf(resolved_path.parts, s)
            /\ ~StartsWith(s, <<"/">>) =>
                  resolved_path = [root |-> "/", parts |-> BaseParts \o <<s>>]
            /\ pc = "announced" => fsLog = <<>>

\* C7 (amended): resolve_skill_path returns an absolute input unchanged and
\* for every other input the base directory /home/ubuntu/skills followed by
\* the input's path segments in order: one segment directly under the base
\* for a bare name, several levels for a relative path with several segments,
\* the base itself for an empty or "." input; it accesses no file.
C7_SegmentsUnderBase ==
    (Len(argv) = 1 /\ pc # "start") =>
        LET s == argv[1]
        IN  /\ StartsWith(s, <<"/">>) =>
                  /\ resolved_path.root \in {"/", "//"}
                  /\ IsSegmentsOf(resolved_path.parts, s)
            /\ ~StartsWith(s, <<"/">>) =>
                  /\ resolved_path.root = "/"
                  /\ Len(resolved_path.parts) >= 3
                  /\ Slice(resolved_path.parts, 1, 3) = BaseParts
                  /\ IsSegmentsOf(Slice(resolved_path.parts, 4, Len(resolved_path.parts)), s)
            /\ (Len(s) = 1 /\ s[1] \notin {"/", "."}) =>
                  resolved_path = [root |-> "/", parts |-> BaseParts \o <<s>>]
            /\ pc = "announced" => fsLog = <<>>

\* a relative reference with two segments was resolved two levels below the base
C7_Witness ==
    /\ pc = "announced"
    /\ argv = << <<"foo", "/", "foo">> >>
    /\ resolved_path = [root |-> "/", parts |-> BaseParts \o << <<"foo">>, <<"foo">> >>]

----
CheckOrder ==
    <<"exists", "marker", "closing_marker", "yaml_mapping", "unknown_keys",
      "name_present", "description_present", "name_type", "name_chars",
      "name_hyphens", "name_length", "description_type", "description_brackets",
      "description_length">>

\* the messages of the checks, in the order of the checks (two for the fourth)
CheckMessages ==
    <<{"SKILL.md not found"}, {"No YAML frontmatter found"}, {"Invalid frontmatter format"},
      {"Invalid YAML in frontmatter", "Frontmatter must be a YAML dictionary"},
      {"Unexpected key(s) in SKILL.md frontmatter"}, {"Missing 'name' in frontmatter"},
      {"Missing 'description' in frontmatter"}, {"Name must be a string, got"},
      {"Name should be hyphen-case"},
      {"Name cannot start/end with hyphen or contain consecutive hyphens"},
      {"Name is too long"}, {"Description must be a string, got"},
      {"Description cannot contain angle brackets"}, {"Description is too long"}>>

\* whether the input fails the i-th check taken by itself
FailsCheck(i) ==
    LET n == strip(RawName.v)
        d == strip(RawDescription.v)
    IN  CASE i = 1 -> ~(fileExists /\ SkillMd = PathJoin(skillDir, <<"SKILL.md">>))
          [] i = 2 -> ~StartsWith(content, Marker)
          [] i = 3 -> ~(/\ StartsWith(content, Marker \o <<"\n">>)
                        /\ Contains(Slice(content, 5, Len(content)), <<"\n">> \o Marker))
          [] i = 4 -> yaml.kind # "dict"
          [] i = 5 -> keys(yaml.map) \ ALLOWED_PROPERTIES # {}
          [] i = 6 -> ~HasKey(yaml.map, kName)
          [] i = 7 -> ~HasKey(yaml.map, kDescription)
          [] i = 8 -> RawName.t # "str"
          [] i = 9 -> n # <<>> /\ \E k \in 1..Len(n) : n[k] \notin HyphenCaseChars
          [] i = 10 -> n # <<>> /\ ~IsHyphenCase(n)
          [] i = 11 -> Len(n) > 64
          [] i = 12 -> RawDescription.t # "str"
          [] i = 13 -> ~NoBrackets(d)
          [] i = 14 -> Len(d) > 1024

\* the first check the input fails, 0 if none; a check is only looked at
\* when all checks before it pass
RECURSIVE FirstFailingFrom(_)
FirstFailingFrom(i) ==
    IF i > 14 THEN 0 ELSE IF FailsCheck(i) THEN i ELSE FirstFailingFrom(i + 1)

\* C8: validate_skill returns the message of the first failing check of the
\* fixed order and performs no later check; it returns success exactly when
\* no check fails.
C8_FirstFailureReported ==
    Validated =>
        LET f == FirstFailingFrom(1)
        IN  /\ outcome.kind = "return"
            /\ outcome.valid <=> f = 0
            /\ f = 0 => outcome.message = Msg("Skill is valid!", <<>>, 0)
            /\ f # 0 =>
                  /\ outcome.message.id \in CheckMessages[f]
                  /\ \A k \in 1..Len(outcome.checks) :
                        \E j \in 1..f : CheckOrder[j] = outcome.checks[k]
                  /\ \A j, k \in 1..Len(outcome.checks) :
                        j < k => \E a, b \in 1..14 :
                                    /\ a < b
                                    /\ CheckOrder[a] = outcome.checks[j]
                                    /\ CheckOrder[b] = outcome.checks[k]

----
\* the content is a first line "---" followed by a line "---" starting at i
ClosingLineAt(i) ==
    /\ i >= 5
    /\ StartsWith(content, Marker \o <<"\n">>)
    /\ content[i - 1] = "\n"
    /\ OccursAt(content, Marker, i)
    /\ i + 3 > Len(content) \/ content[i + 3] = "\n"

FileRead == Validated /\ Len(outcome.fsops) = 2

\* C9: the block handed to the YAML parser is the text between the first
\* line, which is ---, and the next line that is ---; when the content starts
\* with --- and no such closing line follows, the result is
\* (false, "Invalid frontmatter format") and nothing is parsed.
C9_BlockBetweenMarkerLines ==
    (FileRead /\ StartsWith(content, Marker)) =>
        LET I == {i \in 1..Len(content) : ClosingLineAt(i)}
        IN  IF I # {}
            THEN LET i == CHOOSE x \in I : \A y \in I : x <= y
                 IN  outcome.parsed = <<Slice(content, 5, i - 2)>>
            ELSE /\ Returned(FALSE, Msg("Invalid frontmatter format", <<>>, 0))
                 /\ outcome.parsed = <<>>

\* What line 56 does instead: the block ends at the first newline after the
\* first line that is directly followed by "---", whether or not that "---"
\* is a whole line, and the newline that ends the first line does not count.
BlockUpToNewlineMarker ==
    (FileRead /\ StartsWith(content, Marker)) =>
        LET closing == <<"\n">> \o Marker
            rest == Slice(content, 5, Len(content))
        IN  /\ Len(outcome.parsed) <= 1
            /\ outcome.parsed # <<>> =>
                  LET b == outcome.parsed[1]
                  IN  /\ StartsWith(content, Marker \o <<"\n">> \o b \o closing)
                      /\ ~Contains(b \o <<"\n", "-", "-">>, closing)
            /\ outcome.parsed = <<>> =>
                  /\ Returned(FALSE, Msg("Invalid frontmatter format", <<>>, 0))
                  /\ ~(StartsWith(content, Marker \o <<"\n">>) /\ Contains(rest, closing))

----
\* the mapping with its optional entries replaced by o
WithOptional(m, o) == {e \in m : e.key \notin OptionalKeys} \cup o

\* C10: the result does not depend on the optional keys: a front matter that
\* differs from the one read only in its license, allowed-tools and metadata
\* entries gets the same result.
C10_OptionalKeysIgnored ==
    (FrontmatterChecked /\ pc = "validated") =>
        \A o \in OptionalParts :
            LET r == check_keys(WithOptional(yaml.map, o), <<>>)
            IN  /\ r.kind = outcome.kind
                /\ r.valid = outcome.valid
                /\ r.message = outcome.message

\* a front matter with nested metadata was accepted
C10_Witness ==
    /\ FrontmatterChecked
    /\ Entry(Str(kMetadata), DictVal) \in yaml.map
    /\ outcome.kind = "return" /\ outcome.valid

====
